---- MODULE Spec2Model ----
(***************************************************************************)
(* Derived-statistics pipeline of the dashboard (SHR-HR/Coop_project):     *)
(* store/selectors/statisticsSelectors.ts evaluated over the record store  *)
(* statistics.global of store/slices/statisticsSlice.ts.                   *)
(*                                                                         *)
(* Strings are sequences of UTF-16 code units.  Arrays are objects: the    *)
(* heap maps a reference (an index) to the array's contents, so that a     *)
(* stage returning its input (aliasing) and a stage writing an array in    *)
(* place are both expressible.  Records are never written by the code and  *)
(* are modelled as values.                                                 *)
(***************************************************************************)
EXTENDS Integers, Sequences, FiniteSets, TLC

VARIABLES
  heap,        \* array objects: reference -> contents
  global,      \* state.statistics.global (a reference)
  query,       \* selector argument / component state `query`
  sortMode,    \* state.statistics.sortMode
  onlyActive,  \* component state `onlyActive`
  page,        \* component state `page`
  pageSize,    \* component state `pageSize`
  filtered,    \* reference returned by the filter stage
  sorted,      \* reference returned by the sort stage
  paginated,   \* {data, total, totalPages, currentPage} of the paginate stage
  totals,      \* result of selectGlobalTotals
  kpis,        \* result of selectGlobalKpis
  snapshot,    \* history: the payload as it was when it was stored
  filteredVal, \* history: the filtered array as it was when filter returned it
  loading,     \* state.statistics.loading
  error,       \* state.statistics.error ("null" for null)
  requests,    \* the fetchGlobalStatistic requests in the order of their
               \* dispatch: "pending", "fulfilled" or "rejected"
  memo,        \* the createSelector instances of the page: the arrays they
               \* hold, the inputs and the result of their last call
  exported,    \* the last export: the utility called and the records it was
               \* given (<<>> before the first export)
  auth,        \* state.auth: username, password, isAuthenticated, loading,
               \* error ("null" for null)
  my,          \* state.statistics.my (<<>> for null)
  myTasks,     \* state.myTasks: items, loading, error, unauthorized
  thunks,      \* the login, fetchMyStatistic, fetchMyTasks and
               \* completeMyTask thunks in flight, in the order of their
               \* dispatch, each with what it read when it started
  myCreds,     \* history: the credentials sent with the request whose
               \* response is in `my` (<<>> when there is none)
  lastLogin,   \* history: the credentials of the login that fulfilled last
               \* (<<>> before the first)
  webp         \* the call of isAnimatedWebP: the bytes it was given, its
               \* local p, what it returned ("scanning" inside the loop,
               \* "idle" before the first call) and the iterations so far

vars == <<heap, global, query, sortMode, onlyActive, page, pageSize,
          filtered, sorted, paginated, totals, kpis, snapshot, filteredVal,
          loading, error, requests, memo, exported, auth, my, myTasks,
          thunks, myCreds, lastLogin, webp>>

\* the store, the component state and the selectors of the dashboard
onPage == <<heap, global, query, sortMode, onlyActive, page, pageSize,
            filtered, sorted, paginated, totals, kpis, snapshot, filteredVal,
            loading, error, requests, memo>>

\* what the renders of the dashboard leave alone
offPage == <<exported, auth, my, myTasks, thunks, myCreds, lastLogin, webp>>

---------------------------------------------------------------------------
(* Bounds and input sets                                                   *)

MaxLen == 3        \* longest record collection delivered by a fetch
MaxPage == 5       \* largest requested page number
MaxPageSize == 3   \* largest small page size tried (12 is always tried)

\* "Аня", "аня", "Борис" as UTF-16 code units
NameAnya == <<1040, 1085, 1103>>
NameAnyaLower == <<1072, 1085, 1103>>
NameBoris == <<1041, 1086, 1088, 1080, 1089>>

User(i, n, c, w, f) ==
  [id |-> i, name |-> n, completedTasks |-> c, inWorkTasks |-> w, failedTasks |-> f]

\* The users the backend may report.  1 and 2 tie on completedTasks, 1 and 3
\* on failedTasks, 1 and 4 have the same name (equal full key under nameAsc
\* and inWorkDesc, different identity), 3 differs from them in case only, 4
\* has no tasks at all.  1 has completed 23 of 40 tasks, 57.5 %.
Users ==
  { User(1, NameAnya, 23, 0, 17),
    User(2, NameBoris, 23, 1, 0),
    User(3, NameAnyaLower, 1, 1, 17),
    User(4, NameAnya, 0, 0, 0) }

RECURSIVE SeqsUpTo(_)
\* sequences of distinct users (ids are unique within a snapshot), length <= n
SeqsUpTo(n) ==
  IF n = 0 THEN {<<>>}
  ELSE LET shorter == SeqsUpTo(n - 1)
       IN shorter \cup
          { Append(s, u) : s \in {t \in shorter : Len(t) = n - 1},
                           u \in Users }

Range(s) == {s[i] : i \in DOMAIN s}

Payloads == {s \in SeqsUpTo(MaxLen) : Cardinality(Range(s)) = Len(s)}

\* the responses with no record or one record
ShortPayloads == {s \in Payloads : Len(s) <= 1}

MaxCrowd == 7      \* records of the largest response with many users

\* A response with many users: record i of the crowd has completed
\* (5 * i) % 4 tasks (1, 2, 3, 0, 1, 2, 3, ...), so that more than five
\* records have completed something, with ties that the names break.
CrowdNames == <<NameBoris, NameAnya, NameAnyaLower>>

Crowd ==
  [i \in 1 .. MaxCrowd |->
     User(4 + i, CrowdNames[(i % 3) + 1], (5 * i) % 4, i % 2, 0)]

RECURSIVE PickedUpTo(_, _)
\* the records of the crowd at the positions of S up to n, in their order
PickedUpTo(S, n) ==
  IF n = 0 THEN <<>>
  ELSE IF n \in S THEN Append(PickedUpTo(S, n - 1), Crowd[n])
  ELSE PickedUpTo(S, n - 1)

CrowdPayloads == {PickedUpTo(S, MaxCrowd) : S \in SUBSET (1 .. MaxCrowd)}

MaxRequests == 2   \* fetchGlobalStatistic requests whose lifecycle is followed

\* the responses to those requests
FetchPayloads == {s \in Payloads : Len(s) < MaxLen}

\* err.message of a failed request
ErrorMessages == {"Network Error", "Request failed with status code 500"}

\* "", "  ", " Ан", "бор "
Queries ==
  { <<>>, <<32, 32>>, <<32, 1040, 1085>>, <<1073, 1086, 1088, 32>> }

KnownModes == {"completedDesc", "failedDesc", "inWorkDesc", "nameAsc"}
\* what localStorage "dashboard:sortMode" may hold: nothing, a mode, anything
PersistedValues == {"null"} \cup KnownModes \cup {"bogus"}

Pages == (0 - 1) .. MaxPage
PageSizes == ((0 - 1) .. MaxPageSize) \cup {12}

---------------------------------------------------------------------------
(* String built-ins                                                        *)

\* String.prototype.toLowerCase on one code unit (Latin A-Z, Cyrillic А-Я)
LowerChar(c) ==
  IF (c >= 65 /\ c <= 90) \/ (c >= 1040 /\ c <= 1071) THEN c + 32 ELSE c

toLowerCase(s) == [i \in 1 .. Len(s) |-> LowerChar(s[i])]

IsWhiteSpace(c) == c \in {9, 10, 11, 12, 13, 32, 160}

RECURSIVE trimStart(_)
trimStart(s) ==
  IF s # <<>> /\ IsWhiteSpace(Head(s)) THEN trimStart(Tail(s)) ELSE s

RECURSIVE trimEnd(_)
trimEnd(s) ==
  IF s # <<>> /\ IsWhiteSpace(s[Len(s)])
  THEN trimEnd(SubSeq(s, 1, Len(s) - 1)) ELSE s

\* String.prototype.trim
trim(s) == trimEnd(trimStart(s))

\* String.prototype.includes
includes(s, q) ==
  \E i \in 0 .. (Len(s) - Len(q)) : SubSeq(s, i + 1, i + Len(q)) = q

---------------------------------------------------------------------------
(* Intl.Collator("ru").compare: multi-level comparison.  The primary level *)
(* compares the letters regardless of case, the tertiary level breaks a    *)
(* primary tie with lower case before upper case.                          *)

IsUpper(c) == LowerChar(c) # c

PrimaryKey(s) == [i \in 1 .. Len(s) |-> LowerChar(s[i])]
TertiaryKey(s) == [i \in 1 .. Len(s) |-> IF IsUpper(s[i]) THEN 1 ELSE 0]

RECURSIVE LexCompare(_, _)
\* -1, 0, 1: lexicographic order of two number sequences, a prefix first
LexCompare(a, b) ==
  IF a = <<>> /\ b = <<>> THEN 0
  ELSE IF a = <<>> THEN 0 - 1
  ELSE IF b = <<>> THEN 1
  ELSE IF Head(a) < Head(b) THEN 0 - 1
  ELSE IF Head(a) > Head(b) THEN 1
  ELSE LexCompare(Tail(a), Tail(b))

collatorCompare(a, b) ==
  LET p == LexCompare(PrimaryKey(a), PrimaryKey(b))
  IN IF p # 0 THEN p ELSE LexCompare(TertiaryKey(a), TertiaryKey(b))

---------------------------------------------------------------------------
(* Arrays on the heap                                                      *)

\* a freshly allocated array holding `contents`
NewArray(h, contents) == [heap |-> Append(h, contents), ref |-> Len(h) + 1]

---------------------------------------------------------------------------
(* Filter stage: result function of makeSelectFiltered                     *)

\* variant: the name is not case-folded
NameMatchesCaseSensitive(u, q) == includes(u.name, q)

\* u.name.toLowerCase().includes(q)
NameMatches(u, q) == includes(toLowerCase(u.name), q)

\* (u.completedTasks + u.inWorkTasks + u.failedTasks) > 0
IsActive(u) == (u.completedTasks + u.inWorkTasks + u.failedTasks) > 0

\* Array.prototype.filter with the name predicate
filterByName(arr, q) ==
  LET Test(u) == NameMatches(u, q) IN SelectSeq(arr, Test)

Reverse(arr) == [i \in 1 .. Len(arr) |-> arr[Len(arr) + 1 - i]]

\* variant: the kept records are collected back to front
filterActiveReversed(arr) == Reverse(SelectSeq(arr, IsActive))

\* Array.prototype.filter with the activity predicate
filterActive(arr) == SelectSeq(arr, IsActive)

\* let arr = q ? global.filter(...) : global
filteredByQuery(h, g, q) ==
  IF q # <<>> THEN NewArray(h, filterByName(h[g], q))
              ELSE [heap |-> h, ref |-> g]

\* if (onlyActive) arr = arr.filter(...)
filteredByActivity(a, active) ==
  IF active THEN NewArray(a.heap, filterActive(a.heap[a.ref])) ELSE a

\* returns the heap after the call and the reference of the returned array
makeSelectFiltered(h, g, qry, active) ==
  filteredByActivity(filteredByQuery(h, g, toLowerCase(trim(qry))), active)

---------------------------------------------------------------------------
(* Sort stage: result function of makeSelectSorted                         *)

\* variant: ties broken by raw code-unit order instead of the collator
compareFnCodeUnits(a, b, mode) ==
  CASE mode = "completedDesc" ->
         IF b.completedTasks - a.completedTasks # 0
         THEN b.completedTasks - a.completedTasks
         ELSE LexCompare(a.name, b.name)
    [] mode = "failedDesc" ->
         IF b.failedTasks - a.failedTasks # 0
         THEN b.failedTasks - a.failedTasks
         ELSE LexCompare(a.name, b.name)
    [] mode = "inWorkDesc" ->
         IF b.inWorkTasks - a.inWorkTasks # 0
         THEN b.inWorkTasks - a.inWorkTasks
         ELSE LexCompare(a.name, b.name)
    [] OTHER -> LexCompare(a.name, b.name)

\* variant: `default:` does not share the nameAsc branch and sorts nothing
compareFnNoDefault(a, b, mode) ==
  CASE mode = "completedDesc" ->
         IF b.completedTasks - a.completedTasks # 0
         THEN b.completedTasks - a.completedTasks
         ELSE collatorCompare(a.name, b.name)
    [] mode = "failedDesc" ->
         IF b.failedTasks - a.failedTasks # 0
         THEN b.failedTasks - a.failedTasks
         ELSE collatorCompare(a.name, b.name)
    [] mode = "inWorkDesc" ->
         IF b.inWorkTasks - a.inWorkTasks # 0
         THEN b.inWorkTasks - a.inWorkTasks
         ELSE collatorCompare(a.name, b.name)
    [] mode = "nameAsc" -> collatorCompare(a.name, b.name)
    [] OTHER -> 0

\* the comparator chosen by `switch (sortMode)`; a number as in JS
compareFn(a, b, mode) ==
  CASE mode = "completedDesc" ->
         IF b.completedTasks - a.completedTasks # 0
         THEN b.completedTasks - a.completedTasks
         ELSE collatorCompare(a.name, b.name)
    [] mode = "failedDesc" ->
         IF b.failedTasks - a.failedTasks # 0
         THEN b.failedTasks - a.failedTasks
         ELSE collatorCompare(a.name, b.name)
    [] mode = "inWorkDesc" ->
         IF b.inWorkTasks - a.inWorkTasks # 0
         THEN b.inWorkTasks - a.inWorkTasks
         ELSE collatorCompare(a.name, b.name)
    [] OTHER -> collatorCompare(a.name, b.name)

\* where a stable sort puts x into the sorted run `run`: after every element
\* that does not compare greater than x
MaxOrZero(S) == IF S = {} THEN 0 ELSE CHOOSE i \in S : \A j \in S : j <= i

\* variant: x goes before the elements that compare equal to it
InsertPosBeforeEqual(run, x, mode) ==
  MaxOrZero({i \in 1 .. Len(run) : compareFn(run[i], x, mode) < 0})

InsertPos(run, x, mode) ==
  MaxOrZero({i \in 1 .. Len(run) : compareFn(run[i], x, mode) <= 0})

InsertAt(run, k, x) ==
  SubSeq(run, 1, k) \o <<x>> \o SubSeq(run, k + 1, Len(run))

RECURSIVE SortFrom(_, _, _)
SortFrom(run, rest, mode) ==
  IF rest = <<>> THEN run
  ELSE SortFrom(InsertAt(run, InsertPos(run, Head(rest), mode), Head(rest)),
                Tail(rest), mode)

\* variant: an unstable sort, records with equal keys come out reversed
ArraySortUnstable(arr, mode) == SortFrom(<<>>, Reverse(arr), mode)

\* Array.prototype.sort(compareFn): stable (ECMAScript 2019)
ArraySort(arr, mode) == SortFrom(<<>>, arr, mode)

\* const arr = [...filtered]; arr.sort(...); return arr
sortInPlace(c, mode) ==
  [heap |-> [c.heap EXCEPT ![c.ref] = ArraySort(c.heap[c.ref], mode)],
   ref |-> c.ref]

\* variant: the spread copy is missing, the input array itself is sorted
makeSelectSortedNoCopy(h, f, mode) == sortInPlace([heap |-> h, ref |-> f], mode)

makeSelectSorted(h, f, mode) == sortInPlace(NewArray(h, h[f]), mode)

---------------------------------------------------------------------------
(* JS numbers that the paginate stage can produce: an integer, Infinity or *)
(* NaN.                                                                    *)

Num(n) == [kind |-> "num", v |-> n]
Infinity == [kind |-> "inf", v |-> 0]
NaN == [kind |-> "nan", v |-> 0]
IsFinite(x) == x.kind = "num"

\* Math.ceil(a / b) for integers a >= 0 and b
MathCeilDiv(a, b) ==
  IF b > 0 THEN Num(0 - ((0 - a) \div b))
  ELSE IF b < 0 THEN Num(0 - (a \div (0 - b)))
  ELSE IF a = 0 THEN NaN ELSE Infinity

\* Math.max(n, x) for an integer n
MathMax(n, x) ==
  IF x.kind = "num" THEN Num(IF x.v > n THEN x.v ELSE n) ELSE x

\* Math.min(n, x) for an integer n
MathMin(n, x) ==
  IF x.kind = "num" THEN Num(IF x.v < n THEN x.v ELSE n)
  ELSE IF x.kind = "inf" THEN Num(n) ELSE NaN

\* x + n and x * n for an integer n and a finite or NaN x
JsAdd(x, n) == IF x.kind = "num" THEN Num(x.v + n) ELSE x
JsMul(x, n) == IF x.kind = "num" THEN Num(x.v * n) ELSE x

\* the index Array.prototype.slice makes of an argument: NaN is 0, a
\* negative index counts from the end, the result lies in 0 .. len
SliceIndex(x, len) ==
  LET k == IF x.kind = "nan" THEN 0
           ELSE IF x.kind = "inf" THEN len ELSE x.v
  IN IF k < 0 THEN (IF len + k < 0 THEN 0 ELSE len + k)
     ELSE IF k > len THEN len ELSE k

\* Array.prototype.slice(start, end)
ArraySlice(arr, start, end) ==
  SubSeq(arr, SliceIndex(start, Len(arr)) + 1, SliceIndex(end, Len(arr)))

---------------------------------------------------------------------------
(* Paginate stage: result function of makeSelectPaginated                  *)

\* variant: Math.floor instead of Math.ceil
totalPagesOfFloor(total, size) ==
  MathMax(1, IF size > 0 THEN Num(total \div size) ELSE MathCeilDiv(total, size))

totalPagesOf(total, size) == MathMax(1, MathCeilDiv(total, size))

\* variant: the requested page is not raised to 1
currentPageOfNoLowerClamp(pg, totalPages) == MathMin(pg, totalPages)

\* Math.min(Math.max(1, page), totalPages)
currentPageOf(pg, totalPages) ==
  MathMin(IF pg > 1 THEN pg ELSE 1, totalPages)

\* variant: the page number taken as zero-based
pageSliceZeroBased(arr, currentPage, size) ==
  ArraySlice(arr, JsMul(currentPage, size), JsMul(JsAdd(currentPage, 1), size))

\* sorted.slice((currentPage - 1) * pageSize, currentPage * pageSize)
pageSlice(arr, currentPage, size) ==
  ArraySlice(arr, JsMul(JsAdd(currentPage, 0 - 1), size), JsMul(currentPage, size))

pageResult(d, total, totalPages, currentPage) ==
  [heap |-> d.heap, data |-> d.ref, total |-> total,
   totalPages |-> totalPages, currentPage |-> currentPage]

pageOf(h, s, size, totalPages, currentPage) ==
  pageResult(NewArray(h, pageSlice(h[s], currentPage, size)),
             Len(h[s]), totalPages, currentPage)

pageClamped(h, s, pg, size, totalPages) ==
  pageOf(h, s, size, totalPages, currentPageOf(pg, totalPages))

makeSelectPaginated(h, s, pg, size) ==
  pageClamped(h, s, pg, size, totalPagesOf(Len(h[s]), size))

---------------------------------------------------------------------------
(* The quotients of the aggregate stage are IEEE 754 doubles.  A positive  *)
(* double is [m, f]: the value is m * 2^(-f), where the integer m of at    *)
(* most 53 binary digits is held in limbs of 18 digits, least significant  *)
(* limb first.  The operands are integers below 2^13.                      *)

SignificandBits == 53

Pow2Table ==
  <<1, 2, 4, 8, 16, 32, 64, 128, 256, 512, 1024, 2048, 4096, 8192, 16384,
    32768, 65536, 131072, 262144, 524288, 1048576, 2097152, 4194304,
    8388608, 16777216, 33554432, 67108864, 134217728, 268435456, 536870912,
    1073741824>>

\* 2^n for n in 0 .. 30
Pow2(n) == Pow2Table[n + 1]

\* the number of binary digits of n, 0 <= n < 2^18
IntBits(n) == Cardinality({k \in 0 .. 17 : Pow2(k) <= n})

LimbBase == Pow2(18)

\* limb number j (from 0) of x, 0 beyond its length
LimbAt(x, j) == IF j + 1 \in DOMAIN x THEN x[j + 1] ELSE 0

\* binary digit number i (from 0) of x
BitAt(x, i) ==
  IF i < 0 THEN 0 ELSE (LimbAt(x, i \div 18) \div Pow2(i % 18)) % 2

\* the number of binary digits of x > 0
BitLengthAt(x, top) == 18 * (top - 1) + IntBits(x[top])

BitLength(x) == BitLengthAt(x, MaxOrZero({j \in DOMAIN x : x[j] # 0}))

\* floor(x / 2^g) for g < 18, in three limbs
ShiftRight(x, g) ==
  [j \in 1 .. 3 |->
     (LimbAt(x, j - 1) \div Pow2(g)) + (LimbAt(x, j) % Pow2(g)) * Pow2(18 - g)]

\* floor(x / 2^g) as an integer, for a result below 2^18
ShiftedInt(x, g) ==
  (LimbAt(x, g \div 18) \div Pow2(g % 18))
  + LimbAt(x, (g \div 18) + 1) * Pow2(18 - (g % 18))

\* m + 1
Increment(m) ==
  IF m[1] + 1 < LimbBase THEN <<m[1] + 1, m[2], m[3]>>
  ELSE IF m[2] + 1 < LimbBase THEN <<0, m[2] + 1, m[3]>>
  ELSE <<0, 0, m[3] + 1>>

RoundedUp(up, kept, f) == [m |-> IF up THEN Increment(kept) ELSE kept, f |-> f]

\* x * 2^(-f) rounded to 53 digits, to nearest, ties to even; drop > 0 is
\* the number of digits to give up and sticky tells that the exact value
\* has non-zero digits beyond x
RoundDropping(x, f, sticky, drop) ==
  RoundedUp(/\ BitAt(x, drop - 1) = 1
            /\ \/ sticky
               \/ x[1] % Pow2(drop - 1) # 0
               \/ BitAt(x, drop) = 1,
            ShiftRight(x, drop), f - drop)

RoundToDouble(x, f, sticky) ==
  RoundDropping(x, f, sticky, BitLength(x) - SignificandBits)

\* floor(log2(a / b)) is k or k - 1 when k is the difference of the lengths
ExponentNear(a, b, k) ==
  IF (IF k >= 0 THEN Pow2(k) * b <= a ELSE b <= a * Pow2(0 - k))
  THEN k ELSE k - 1

\* floor(log2(a / b))
Exponent(a, b) == ExponentNear(a, b, IntBits(a) - IntBits(b))

\* the long division goes on with remainder r, limb by limb
QuotientLow(q2, q1, r, b) ==
  [q |-> <<(r * LimbBase) \div b, q1, q2>>, sticky |-> (r * LimbBase) % b # 0]

QuotientMid(q2, r, b) ==
  QuotientLow(q2, (r * LimbBase) \div b, (r * LimbBase) % b, b)

\* floor(n * 2^36 / b), 54 digits
Quotient(n, b) == QuotientMid(n \div b, n % b, b)

RoundedQuotient(q, k) == RoundToDouble(q.q, SignificandBits - k, q.sticky)

\* a * 2^(-k) / b lies in [1, 2)
DividedAt(a, b, k) == RoundedQuotient(Quotient(a * Pow2(17 - k), b), k)

\* a / b for integers a > 0, b > 0
JsDivide(a, b) == DividedAt(a, b, Exponent(a, b))

ProductHigh(p0, p1, t2) == <<p0, p1, t2 % LimbBase, t2 \div LimbBase>>

ProductMid(p0, t1, m) ==
  ProductHigh(p0, t1 % LimbBase, m[3] * 100 + (t1 \div LimbBase))

\* 100 * m, exactly, in four limbs
Times100(m) ==
  ProductMid((m[1] * 100) % LimbBase, m[2] * 100 + ((m[1] * 100) \div LimbBase), m)

\* x * 100
JsTimes100(x) == RoundToDouble(Times100(x.m), x.f, FALSE)

\* the integer nearest to x * 2^(-f), the larger one of two
NearestInt(x, f) == ShiftedInt(x, f) + BitAt(x, f - 1)

\* Math.round(x)
MathRound(x) == NearestInt(x.m, x.f)

\* x.toFixed(2), in hundredths
toFixed2(x) == NearestInt(Times100(x.m), x.f)

---------------------------------------------------------------------------
(* Aggregate stage: selectGlobalTotals and selectGlobalKpis                *)

RECURSIVE SumOf(_, _)
SumOf(arr, field) ==
  IF arr = <<>> THEN 0 ELSE Head(arr)[field] + SumOf(Tail(arr), field)

selectGlobalTotals(h, g) ==
  [completed |-> SumOf(h[g], "completedTasks"),
   inWork |-> SumOf(h[g], "inWorkTasks"),
   failed |-> SumOf(h[g], "failedTasks")]

\* Math.round((a / b) * 100) for integers a >= 0, b > 0
RoundPercent(a, b) ==
  IF a = 0 THEN 0 ELSE MathRound(JsTimes100(JsDivide(a, b)))

\* +(a / b).toFixed(2) for integers a >= 0, b > 0, in hundredths
RoundHundredths(a, b) ==
  IF a = 0 THEN 0 ELSE toFixed2(JsDivide(a, b))

HasCompleted(u) == u.completedTasks > 0

\* variant: the first record even when it has completed nothing
topOfUnguarded(byCompleted) ==
  IF byCompleted # <<>> THEN <<byCompleted[1]>> ELSE <<>>

\* byCompleted[0]?.completedTasks > 0 ? byCompleted[0] : null
\* (<<>> for null, <<u>> for the record u)
topOf(byCompleted) ==
  IF byCompleted # <<>> /\ byCompleted[1].completedTasks > 0
  THEN <<byCompleted[1]>> ELSE <<>>

\* variant: slice(0, 6)
firstSix(arr) == SubSeq(arr, 1, IF Len(arr) < 6 THEN Len(arr) ELSE 6)

\* slice(0, 5)
firstFive(arr) == SubSeq(arr, 1, IF Len(arr) < 5 THEN Len(arr) ELSE 5)

placed(arr) ==
  [i \in 1 .. Len(arr) |->
     [place |-> i, id |-> arr[i].id, name |-> arr[i].name,
      completed |-> arr[i].completedTasks]]

\* byCompleted.filter(...).slice(0, 5).map(...)
leaderboardOf(byCompleted) == placed(firstFive(SelectSeq(byCompleted, HasCompleted)))

kpiValue(users, completed, inWork, failed, total, byCompleted) ==
  [users |-> users, total |-> total, completed |-> completed,
   inWork |-> inWork, failed |-> failed,
   doneRate |-> IF total # 0 THEN RoundPercent(completed, total) ELSE 0,
   avgCompletedPerUser100 |->
     IF users # 0 THEN RoundHundredths(completed, users) ELSE 0,
   top |-> topOf(byCompleted),
   leaderboard |-> leaderboardOf(byCompleted)]

kpisFrom(c, users, completed, inWork, failed) ==
  [heap |-> c.heap,
   value |-> kpiValue(users, completed, inWork, failed,
                      completed + inWork + failed, c.heap[c.ref])]

\* variant: the failed counter adds up inWorkTasks
selectGlobalKpisMiscounted(h, g) ==
  kpisFrom(sortInPlace(NewArray(h, h[g]), "completedDesc"), Len(h[g]),
           SumOf(h[g], "completedTasks"), SumOf(h[g], "inWorkTasks"),
           SumOf(h[g], "inWorkTasks"))

\* returns the heap after the call and the KPI object
selectGlobalKpis(h, g) ==
  kpisFrom(sortInPlace(NewArray(h, h[g]), "completedDesc"), Len(h[g]),
           SumOf(h[g], "completedTasks"), SumOf(h[g], "inWorkTasks"),
           SumOf(h[g], "failedTasks"))

---------------------------------------------------------------------------
(* UsersTable: what a row of the table shows for the record u              *)

rowTotal(u) == u.completedTasks + u.inWorkTasks + u.failedTasks

\* total ? Math.round((u.completedTasks / total) * 100) : 0
rowDoneRate(u) ==
  IF rowTotal(u) # 0 THEN RoundPercent(u.completedTasks, rowTotal(u)) ELSE 0

---------------------------------------------------------------------------
(* One evaluation of the selectors of the page over the store, in the      *)
(* order the page calls them.  Arrays nobody holds any more are dropped    *)
(* and the live ones renumbered in the order store, filtered, sorted, data.*)

RECURSIVE Dedup(_)
Dedup(s) ==
  IF s = <<>> THEN <<>>
  ELSE IF s[Len(s)] \in Range(SubSeq(s, 1, Len(s) - 1))
  THEN Dedup(SubSeq(s, 1, Len(s) - 1))
  ELSE Append(Dedup(SubSeq(s, 1, Len(s) - 1)), s[Len(s)])

IndexIn(d, r) == CHOOSE i \in 1 .. Len(d) : d[i] = r

Compacted(live, g, t, k, f, s, p) ==
  [heap |-> [i \in 1 .. Len(live) |-> p.heap[live[i]]],
   global |-> IndexIn(live, g),
   filtered |-> IndexIn(live, f.ref),
   sorted |-> IndexIn(live, s.ref),
   paginated |-> [data |-> IndexIn(live, p.data), total |-> p.total,
                  totalPages |-> p.totalPages, currentPage |-> p.currentPage],
   totals |-> t,
   kpis |-> k.value,
   filteredVal |-> f.heap[f.ref]]

EvalDone(g, t, k, f, s, p) ==
  Compacted(Dedup(<<g, f.ref, s.ref, p.data>>), g, t, k, f, s, p)

EvalPaginated(g, t, k, f, s, pg, size) ==
  EvalDone(g, t, k, f, s, makeSelectPaginated(s.heap, s.ref, pg, size))

EvalSorted(g, t, k, f, mode, pg, size) ==
  EvalPaginated(g, t, k, f, makeSelectSorted(f.heap, f.ref, mode), pg, size)

EvalFiltered(g, t, k, qry, mode, active, pg, size) ==
  EvalSorted(g, t, k, makeSelectFiltered(k.heap, g, qry, active), mode, pg, size)

\* variant: the KPIs are computed over the filtered records
EvaluateKpisOfFiltered(h0, g, qry, mode, active, pg, size) ==
  EvalFiltered(g, selectGlobalTotals(h0, g),
               selectGlobalKpis(makeSelectFiltered(h0, g, qry, active).heap,
                                makeSelectFiltered(h0, g, qry, active).ref),
               qry, mode, active, pg, size)

Evaluate(h0, g, qry, mode, active, pg, size) ==
  EvalFiltered(g, selectGlobalTotals(h0, g), selectGlobalKpis(h0, g),
               qry, mode, active, pg, size)

---------------------------------------------------------------------------
(* createSelector: an instance keeps the inputs of its last call and the   *)
(* result it returned, and runs its result function when an input is not   *)
(* === to the kept one (arrays by reference; strings, numbers and booleans *)
(* by value).  The page holds selectSorted, which owns a filter instance,  *)
(* and selectPaginated, which owns a sort and a filter instance.           *)

Instances == {"F1", "S1", "F2", "S2", "P"}

\* an instance before its first call
NeverCalled == [inputs |-> <<>>, result |-> 0]

NoMemo ==
  [global |-> 0, F1 |-> NeverCalled, S1 |-> NeverCalled, F2 |-> NeverCalled,
   S2 |-> NeverCalled, P |-> NeverCalled]

\* the outcome of a call: ran tells whether the result function ran
CacheHit(h, c) ==
  [heap |-> h, inputs |-> c.inputs, result |-> c.result, ran |-> FALSE]

RanArray(r, inputs) ==
  [heap |-> r.heap, inputs |-> inputs, result |-> r.ref, ran |-> TRUE]

RanPage(r, inputs) ==
  [heap |-> r.heap, inputs |-> inputs,
   result |-> [data |-> r.data, total |-> r.total,
               totalPages |-> r.totalPages, currentPage |-> r.currentPage],
   ran |-> TRUE]

\* variant: the filter instance compares its inputs with nothing
memoFilteredForgetful(c, h, g, qry, active) ==
  RanArray(makeSelectFiltered(h, g, qry, active), <<g, qry, active>>)

\* an instance of makeSelectFiltered()
memoFiltered(c, h, g, qry, active) ==
  IF c.inputs = <<g, qry, active>> THEN CacheHit(h, c)
  ELSE RanArray(makeSelectFiltered(h, g, qry, active), <<g, qry, active>>)

\* variant: only the sort mode is compared with that of the call before
memoSortedByModeOnly(c, h, f, mode) ==
  IF c.inputs # <<>> /\ c.inputs[2] = mode
  THEN [heap |-> h, inputs |-> <<f, mode>>, result |-> c.result, ran |-> FALSE]
  ELSE RanArray(makeSelectSorted(h, f, mode), <<f, mode>>)

\* an instance of makeSelectSorted(), after its filter
memoSorted(c, h, f, mode) ==
  IF c.inputs = <<f, mode>> THEN CacheHit(h, c)
  ELSE RanArray(makeSelectSorted(h, f, mode), <<f, mode>>)

\* the instance of makeSelectPaginated(), after its sort
memoPaginated(c, h, s, pg, size) ==
  IF c.inputs = <<s, pg, size>> THEN CacheHit(h, c)
  ELSE RanPage(makeSelectPaginated(h, s, pg, size), <<s, pg, size>>)

RanIn(name, r) == IF r.ran THEN {name} ELSE {}

\* the call returned the object that the call before it returned
KeptIn(name, c, r) ==
  IF ~r.ran \/ (c.inputs # <<>> /\ c.result = r.result) THEN {name} ELSE {}

ArrayCache(live, r) ==
  [inputs |-> [r.inputs EXCEPT ![1] = IndexIn(live, r.inputs[1])],
   result |-> IndexIn(live, r.result)]

PageCache(live, r) ==
  [inputs |-> [r.inputs EXCEPT ![1] = IndexIn(live, r.inputs[1])],
   result |-> [r.result EXCEPT !.data = IndexIn(live, r.result.data)]]

\* the instances after a render; the arrays no instance holds any more are
\* dropped and the others renumbered in the order store, F1, S1, F2, S2, data.
\* sameStore, recomputed and kept tell what the render did: whether the
\* store was the array of the render before, which result functions ran, and
\* which instances returned the object they had returned before
MemoCompacted(live, m, g, f1, s1, f2, s2, p) ==
  [heap |-> [i \in 1 .. Len(live) |-> p.heap[live[i]]],
   global |-> IndexIn(live, g),
   F1 |-> ArrayCache(live, f1),
   S1 |-> ArrayCache(live, s1),
   F2 |-> ArrayCache(live, f2),
   S2 |-> ArrayCache(live, s2),
   P |-> PageCache(live, p),
   sameStore |-> g = m.global,
   recomputed |-> RanIn("F1", f1) \cup RanIn("S1", s1) \cup RanIn("F2", f2)
                  \cup RanIn("S2", s2) \cup RanIn("P", p),
   kept |-> KeptIn("F1", m.F1, f1) \cup KeptIn("S1", m.S1, s1)
            \cup KeptIn("F2", m.F2, f2) \cup KeptIn("S2", m.S2, s2)
            \cup KeptIn("P", m.P, p)]

MemoDone(m, g, f1, s1, f2, s2, p) ==
  MemoCompacted(Dedup(<<g, f1.result, s1.result, f2.result, s2.result,
                        p.result.data>>),
                m, g, f1, s1, f2, s2, p)

MemoPaginated(m, g, f1, s1, f2, s2, pg, size) ==
  MemoDone(m, g, f1, s1, f2, s2, memoPaginated(m.P, s2.heap, s2.result, pg, size))

MemoSorted2(m, g, f1, s1, f2, mode, pg, size) ==
  MemoPaginated(m, g, f1, s1, f2, memoSorted(m.S2, f2.heap, f2.result, mode),
                pg, size)

MemoFiltered2(m, g, f1, s1, qry, mode, active, pg, size) ==
  MemoSorted2(m, g, f1, s1, memoFiltered(m.F2, s1.heap, g, qry, active),
              mode, pg, size)

MemoSorted1(m, g, f1, qry, mode, active, pg, size) ==
  MemoFiltered2(m, g, f1, memoSorted(m.S1, f1.heap, f1.result, mode),
                qry, mode, active, pg, size)

\* what the instances keep after a render
Caches(r) ==
  [heap |-> r.heap, global |-> r.global, F1 |-> r.F1, S1 |-> r.S1,
   F2 |-> r.F2, S2 |-> r.S2, P |-> r.P]

\* useSelector(selectSorted(s, query, sortMode, onlyActive)), then
\* useSelector(selectPaginated(s, query, sortMode, onlyActive, page, pageSize))
\* over the store g of the heap h0
MemoEvaluate(m, h0, g, qry, mode, active, pg, size) ==
  MemoSorted1(m, g, memoFiltered(m.F1, h0, g, qry, active),
              qry, mode, active, pg, size)

---------------------------------------------------------------------------
(* Session: the auth and myTasks slices                                    *)

\* initialState of the auth slice
authInitialState ==
  [username |-> "", password |-> "", isAuthenticated |-> FALSE,
   loading |-> FALSE, error |-> "null"]

\* initialState of the myTasks slice
myTasksInitialState ==
  [items |-> <<>>, loading |-> FALSE, error |-> "null", unauthorized |-> FALSE]

\* the credentials the server accepts
Accounts ==
  {[username |-> "anya", password |-> "a1"],
   [username |-> "boris", password |-> "b2"]}

\* what the login form submits: an account, or a wrong password
Credentials == Accounts \cup {[username |-> "anya", password |-> "zz"]}

\* const { username, password } = getState().auth
SessionCreds == [username |-> auth.username, password |-> auth.password]

\* reducer logOut
logOut(state) ==
  [state EXCEPT !.username = "", !.password = "", !.isAuthenticated = FALSE,
                !.error = "null"]

\* reducer of login.pending
loginPending(state) == [state EXCEPT !.loading = TRUE, !.error = "null"]

\* variant: the password of the session before is kept
loginFulfilledKeepsPassword(state, payload) ==
  [state EXCEPT !.loading = FALSE, !.username = payload.username,
                !.isAuthenticated = TRUE, !.error = "null"]

\* reducer of login.fulfilled
loginFulfilled(state, payload) ==
  [state EXCEPT !.loading = FALSE, !.username = payload.username,
                !.password = payload.password, !.isAuthenticated = TRUE,
                !.error = "null"]

\* variant: a rejected login ends the session
loginRejectedEndsSession(state, payload) ==
  [state EXCEPT !.loading = FALSE, !.isAuthenticated = FALSE,
                !.error = IF payload = "undefined"
                          THEN "authorization error" ELSE payload]

\* reducer of login.rejected; the defaults stand for "Ошибка авторизации" and
\* "Ошибка Смены аккаунта"
loginRejected(state, payload) ==
  IF ~state.isAuthenticated
  THEN [state EXCEPT !.loading = FALSE, !.isAuthenticated = FALSE,
                     !.error = IF payload = "undefined"
                               THEN "authorization error" ELSE payload]
  ELSE [state EXCEPT !.loading = FALSE,
                     !.error = IF payload = "undefined"
                               THEN "account switch error" ELSE payload]

\* the catch block of the login thunk: status 401 gives "Неверный логин или
\* пароль", any other failure "Ошибка подключения к API"
LoginRejections(creds) ==
  (IF creds \in Accounts THEN {} ELSE {"wrong login or password"})
    \cup {"API connection error"}

\* what GET /task-api/myStatistic answers to the credentials of an account
MyStatisticOf(creds) == [user |-> creds.username, completedTasks |-> 1]

\* the tasks of the server, as myTasksApi.getAll maps them
Task(id, status) == [id |-> id, status |-> status]

TaskLists ==
  {<<>>, <<Task(1, "new")>>, <<Task(1, "new"), Task(2, "new")>>,
   <<Task(2, "done"), Task(1, "new")>>}

TaskIds == {1, 2}

\* e.response.data.detail of a failed tasks request ("" when there is none)
Details == {"", "Task not found", "unauthorized"}

\* reducer of fetchMyTasks.pending
fetchMyTasksPending(state) ==
  [state EXCEPT !.loading = TRUE, !.error = "null", !.unauthorized = FALSE]

\* reducer of fetchMyTasks.fulfilled
fetchMyTasksFulfilled(state, payload) ==
  [state EXCEPT !.loading = FALSE, !.items = payload]

\* variant: the sentinel is stored as the error as well
fetchMyTasksRejectedSetsError(state, payload) ==
  IF payload = "unauthorized"
  THEN [state EXCEPT !.loading = FALSE, !.unauthorized = TRUE,
                     !.error = payload]
  ELSE [state EXCEPT !.loading = FALSE,
                     !.error = IF payload = "undefined"
                               THEN "unknown error" ELSE payload]

\* reducer of fetchMyTasks.rejected; the default stands for
\* "Неизвестная ошибка"
fetchMyTasksRejected(state, payload) ==
  IF payload = "unauthorized"
  THEN [state EXCEPT !.loading = FALSE, !.unauthorized = TRUE]
  ELSE [state EXCEPT !.loading = FALSE,
                     !.error = IF payload = "undefined"
                               THEN "unknown error" ELSE payload]

\* reducer of completeMyTask.pending
completeMyTaskPending(state) ==
  [state EXCEPT !.error = "null", !.unauthorized = FALSE]

\* reducer of completeMyTask.fulfilled: the task with the id of the payload
\* is replaced, when there is one
completeMyTaskFulfilled(state, payload) ==
  [state EXCEPT !.items =
     [k \in DOMAIN state.items |->
        IF /\ state.items[k].id = payload.id
           /\ \A j \in 1..(k - 1) : state.items[j].id # payload.id
        THEN payload ELSE state.items[k]]]

\* reducer of completeMyTask.rejected
completeMyTaskRejected(state, payload) ==
  IF payload = "unauthorized"
  THEN [state EXCEPT !.unauthorized = TRUE]
  ELSE [state EXCEPT !.error = IF payload = "undefined"
                                THEN "unknown error" ELSE payload]

\* e?.response?.data?.detail || fallback
DetailOr(detail, fallback) == IF detail = "" THEN fallback ELSE detail

---------------------------------------------------------------------------
(* State machine                                                           *)

InitFrom(e, q, m) ==
  /\ heap = e.heap
  /\ global = e.global
  /\ query = q
  /\ sortMode = m
  /\ onlyActive = FALSE
  /\ page = 1
  /\ pageSize = 12
  /\ filtered = e.filtered
  /\ sorted = e.sorted
  /\ paginated = e.paginated
  /\ totals = e.totals
  /\ kpis = e.kpis
  /\ snapshot = <<>>
  /\ filteredVal = e.filteredVal
  /\ loading = FALSE
  /\ error = "null"
  /\ requests = <<>>
  /\ memo = Caches(MemoEvaluate(NoMemo, << <<>> >>, 1, q, m, FALSE, 1, 12))
  /\ exported = <<>>
  /\ auth = authInitialState
  /\ my = <<>>
  /\ myTasks = myTasksInitialState
  /\ thunks = <<>>
  /\ myCreds = <<>>
  /\ lastLogin = <<>>
  /\ webp = [head |-> <<>>, p |-> 0, result |-> "idle", iterations |-> 0]

InitWith(q, m) == InitFrom(Evaluate(<< <<>> >>, 1, q, m, FALSE, 1, 12), q, m)

\* initialState of the slice and of the page, then the first render
Init ==
  \E persistedSort \in PersistedValues, persistedQuery \in Queries :
    InitWith(persistedQuery,
             IF persistedSort = "null" THEN "completedDesc" ELSE persistedSort)

\* the derived values after a render
Rendered(e) ==
  /\ heap' = e.heap
  /\ global' = e.global
  /\ filtered' = e.filtered
  /\ sorted' = e.sorted
  /\ paginated' = e.paginated
  /\ totals' = e.totals
  /\ kpis' = e.kpis
  /\ filteredVal' = e.filteredVal

\* the instances after the render over the store g of the heap h0
Memoized(h0, g, qry, mode, active, pg, size) ==
  memo' = Caches(MemoEvaluate(memo, h0, g, qry, mode, active, pg, size))

\* state.global = action.payload, re-render
StoreReplaced(payload) ==
  /\ Rendered(Evaluate(Append(heap, payload), Len(heap) + 1, query, sortMode,
                       onlyActive, page, pageSize))
  /\ Memoized(Append(memo.heap, payload), Len(memo.heap) + 1, query,
              sortMode, onlyActive, page, pageSize)
  /\ UNCHANGED offPage
  /\ snapshot' = payload
  /\ loading' = FALSE
  /\ UNCHANGED <<query, sortMode, onlyActive, page, pageSize, error>>

\* fetchGlobalStatistic.fulfilled
FetchFulfilled ==
  \E payload \in Payloads : StoreReplaced(payload) /\ UNCHANGED requests

\* fetchGlobalStatistic.fulfilled with a response of at most one record
FetchFulfilledShort ==
  \E payload \in ShortPayloads : StoreReplaced(payload) /\ UNCHANGED requests

\* fetchGlobalStatistic.fulfilled with a response of many users
FetchFulfilledCrowd ==
  \E payload \in CrowdPayloads : StoreReplaced(payload) /\ UNCHANGED requests

\* the requests that have neither fulfilled nor rejected yet
Pending == {i \in DOMAIN requests : requests[i] = "pending"}

\* the page is rendered again over the store and the arguments it has
Rerendered ==
  /\ Rendered(Evaluate(heap, global, query, sortMode, onlyActive, page, pageSize))
  /\ Memoized(memo.heap, memo.global, query, sortMode, onlyActive, page,
              pageSize)
  /\ UNCHANGED offPage
  /\ UNCHANGED <<query, sortMode, onlyActive, page, pageSize, snapshot>>

\* variant: the store is emptied while the request is on its way
FetchGlobalPendingClearsStore ==
  /\ Len(requests) < MaxRequests
  /\ requests' = Append(requests, "pending")
  /\ loading' = TRUE
  /\ error' = "null"
  /\ Rendered(Evaluate(Append(heap, <<>>), Len(heap) + 1, query, sortMode,
                       onlyActive, page, pageSize))
  /\ Memoized(Append(memo.heap, <<>>), Len(memo.heap) + 1, query, sortMode,
              onlyActive, page, pageSize)
  /\ UNCHANGED offPage
  /\ UNCHANGED <<query, sortMode, onlyActive, page, pageSize, snapshot>>

\* dispatch(fetchGlobalStatistic()) by the mount effect or the refresh
\* button, fetchGlobalStatistic.pending
FetchGlobalPending ==
  /\ Len(requests) < MaxRequests
  /\ requests' = Append(requests, "pending")
  /\ loading' = TRUE
  /\ error' = "null"
  /\ Rerendered

\* the response of a pending request arrives, fetchGlobalStatistic.fulfilled
FetchGlobalFulfilled ==
  \E i \in Pending, payload \in FetchPayloads :
    /\ requests' = [requests EXCEPT ![i] = "fulfilled"]
    /\ StoreReplaced(payload)

\* variant: a failed request empties the store
FetchGlobalRejectedClearsStore ==
  \E i \in Pending, msg \in ErrorMessages :
    /\ requests' = [requests EXCEPT ![i] = "rejected"]
    /\ loading' = FALSE
    /\ error' = msg
    /\ Rendered(Evaluate(Append(heap, <<>>), Len(heap) + 1, query, sortMode,
                         onlyActive, page, pageSize))
    /\ Memoized(Append(memo.heap, <<>>), Len(memo.heap) + 1, query, sortMode,
                onlyActive, page, pageSize)
    /\ UNCHANGED offPage
    /\ UNCHANGED <<query, sortMode, onlyActive, page, pageSize, snapshot>>

\* a pending request fails, fetchGlobalStatistic.rejected
FetchGlobalRejected ==
  \E i \in Pending, msg \in ErrorMessages :
    /\ requests' = [requests EXCEPT ![i] = "rejected"]
    /\ loading' = FALSE
    /\ error' = msg
    /\ Rerendered

\* the selectors are called with another query
SetQuery ==
  \E q \in Queries :
    /\ q # query
    /\ query' = q
    /\ Rendered(Evaluate(heap, global, q, sortMode, onlyActive, page, pageSize))
    /\ Memoized(memo.heap, memo.global, q, sortMode, onlyActive, page,
                pageSize)
    /\ UNCHANGED offPage
    /\ UNCHANGED <<sortMode, onlyActive, page, pageSize, snapshot,
                 loading, error, requests>>

\* the selectors are called with the other onlyActive flag
SetOnlyActive ==
  /\ onlyActive' = ~onlyActive
  /\ Rendered(Evaluate(heap, global, query, sortMode, ~onlyActive, page, pageSize))
  /\ Memoized(memo.heap, memo.global, query, sortMode, ~onlyActive, page,
              pageSize)
  /\ UNCHANGED offPage
  /\ UNCHANGED <<query, sortMode, page, pageSize, snapshot,
               loading, error, requests>>

\* setSortMode(mode)
SetSort ==
  \E m \in KnownModes :
    /\ m # sortMode
    /\ sortMode' = m
    /\ Rendered(Evaluate(heap, global, query, m, onlyActive, page, pageSize))
    /\ Memoized(memo.heap, memo.global, query, m, onlyActive, page, pageSize)
    /\ UNCHANGED offPage
    /\ UNCHANGED <<query, onlyActive, page, pageSize, snapshot,
                 loading, error, requests>>

\* the paginate selector is called with another page
SetPage ==
  \E p \in Pages :
    /\ p # page
    /\ page' = p
    /\ Rendered(Evaluate(heap, global, query, sortMode, onlyActive, p, pageSize))
    /\ Memoized(memo.heap, memo.global, query, sortMode, onlyActive, p,
                pageSize)
    /\ UNCHANGED offPage
    /\ UNCHANGED <<query, sortMode, onlyActive, pageSize, snapshot,
                 loading, error, requests>>

\* the paginate selector is called with another page size
SetPageSize ==
  \E n \in PageSizes :
    /\ n # pageSize
    /\ pageSize' = n
    /\ Rendered(Evaluate(heap, global, query, sortMode, onlyActive, page, n))
    /\ Memoized(memo.heap, memo.global, query, sortMode, onlyActive, page, n)
    /\ UNCHANGED offPage
    /\ UNCHANGED <<query, sortMode, onlyActive, page, snapshot,
                 loading, error, requests>>

---------------------------------------------------------------------------
(* The handlers of StatisticPage that write its page number                *)

IntMax(a, b) == IF a > b THEN a ELSE b
IntMin(a, b) == IF a < b THEN a ELSE b

\* the sizes of the "Топ 1 / 3 / 5" buttons
TopSizes == {1, 3, 5}

\* the component state after a handler, and the render that follows
PageRendered(q, m, active, pg, size) ==
  /\ query' = q
  /\ sortMode' = m
  /\ onlyActive' = active
  /\ page' = pg
  /\ pageSize' = size
  /\ Rendered(Evaluate(heap, global, q, m, active, pg, size))
  /\ Memoized(memo.heap, memo.global, q, m, active, pg, size)
  /\ UNCHANGED offPage
  /\ UNCHANGED <<snapshot, loading, error, requests>>

\* showTop(n)
ShowTop == \E n \in TopSizes : PageRendered(query, "completedDesc", TRUE, 1, n)

\* the button "Все"
ShowAll == PageRendered(query, sortMode, FALSE, 1, pageSize)

\* the query input: setQuery(e.target.value); setPage(1)
TypeQuery ==
  \E q \in Queries : PageRendered(q, sortMode, onlyActive, 1, pageSize)

\* the pager buttons; the first two are disabled on page 1, the last two on
\* the last page
PagerFirst ==
  /\ paginated.currentPage # Num(1)
  /\ PageRendered(query, sortMode, onlyActive, 1, pageSize)

PagerPrev ==
  /\ paginated.currentPage # Num(1)
  /\ PageRendered(query, sortMode, onlyActive, IntMax(1, page - 1), pageSize)

PagerNext ==
  /\ paginated.currentPage # paginated.totalPages
  /\ PageRendered(query, sortMode, onlyActive,
                  IntMin(paginated.totalPages.v, page + 1), pageSize)

PagerLast ==
  /\ paginated.currentPage # paginated.totalPages
  /\ PageRendered(query, sortMode, onlyActive, paginated.totalPages.v, pageSize)

\* variant: the effect steps back by one page
ResyncPageStepsBack ==
  /\ page # paginated.currentPage.v
  /\ PageRendered(query, sortMode, onlyActive, page - 1, pageSize)

\* useEffect: if (page !== currentPage) setPage(currentPage)
\* (currentPage is an integer for the page sizes of the page)
ResyncPage ==
  /\ page # paginated.currentPage.v
  /\ PageRendered(query, sortMode, onlyActive, paginated.currentPage.v, pageSize)

---------------------------------------------------------------------------
(* The export handlers of StatisticPage.  `sorted` and `paginated` of the  *)
(* page are what its selectSorted and selectPaginated instances returned.  *)

\* an export utility is called with rows and a file name base
Exported(utility, rows, filenameBase) ==
  /\ exported' = <<utility, rows, filenameBase>>
  /\ UNCHANGED <<onPage, auth, my, myTasks, thunks, myCreds, lastLogin, webp>>

handleExportCSVAll ==
  Exported("exportUsersStatToCSV", memo.heap[memo.S1.result], "default")

handleExportCSVPage ==
  Exported("exportUsersStatToCSV", memo.heap[memo.P.result.data],
           "dashboard_stats_current_page")

handleExportXLSXAll ==
  Exported("exportUsersStatToXLSX", memo.heap[memo.S1.result], "default")

handleExportJSONAll ==
  Exported("exportUsersStatToJSON", memo.heap[memo.S1.result], "default")

handleCopyTSV ==
  Exported("copyUsersStatToClipboardTSV", memo.heap[memo.S1.result], "default")

\* Two specifications share the state and the actions.  Spec varies the
\* arguments of the filter and sort stages (page 1 of 12, as the page starts);
\* SpecPaginate varies the arguments of the paginate stage, among them page
\* numbers outside the range and page sizes <= 0.

\* filter and sort stages under every query, flag, mode and store
Next == FetchFulfilled \/ SetQuery \/ SetOnlyActive \/ SetSort

Spec == Init /\ [][Next]_vars

\* paginate stage under every page, page size and store (first visit:
\* nothing persisted)
InitPaginate == Init /\ query = <<>> /\ sortMode = "completedDesc"

NextPaginate == FetchFulfilled \/ SetPage \/ SetPageSize

SpecPaginate == InitPaginate /\ [][NextPaginate]_vars

\* every argument of every stage together, over the stores of at most one
\* record
NextAll ==
  \/ FetchFulfilledShort
  \/ SetQuery
  \/ SetOnlyActive
  \/ SetSort
  \/ SetPage
  \/ SetPageSize

SpecAll == Init /\ [][NextAll]_vars

\* the lifecycle of the fetchGlobalStatistic requests, which may overlap
\* (first visit)
NextFetch == FetchGlobalPending \/ FetchGlobalFulfilled \/ FetchGlobalRejected

SpecFetch == InitPaginate /\ [][NextFetch]_vars

\* the selector instances of the page under fetches and the handlers that
\* change the arguments of one stage or of several
NextMemo == FetchFulfilledShort \/ ShowTop \/ ShowAll \/ TypeQuery \/ SetSort

SpecMemo == InitPaginate /\ [][NextMemo]_vars

\* the exports of the page over the stores of at most two records, in
\* pages of 1, 3, 5 or 12
NextExport ==
  \/ FetchGlobalPending
  \/ FetchGlobalFulfilled
  \/ ShowTop
  \/ PagerNext
  \/ handleExportCSVAll
  \/ handleExportCSVPage
  \/ handleExportXLSXAll
  \/ handleExportJSONAll
  \/ handleCopyTSV

SpecExport == InitPaginate /\ [][NextExport]_vars

\* the page number of StatisticPage under its handlers and the fetches
\* (first visit); React runs the effect after every render in which page
\* or currentPage has changed
NextPage ==
  \/ FetchFulfilled
  \/ ShowTop
  \/ ShowAll
  \/ TypeQuery
  \/ PagerFirst
  \/ PagerPrev
  \/ PagerNext
  \/ PagerLast
  \/ ResyncPage

\* the dashboard in use: responses, the search box, the sort selector, the
\* "Топ" buttons and the next page button
NextDashboard ==
  \/ FetchFulfilled
  \/ TypeQuery
  \/ SetSort
  \/ ShowTop
  \/ PagerNext

SpecDashboard == InitPaginate /\ [][NextDashboard]_vars

\* what the effect does to the page number, and when: this is ResyncPage
\* without the render that follows the write
ResyncWrite ==
  /\ page # paginated.currentPage.v
  /\ page' = paginated.currentPage.v

SpecPage == InitPaginate /\ [][NextPage]_vars /\ WF_page(ResyncWrite)

\* the aggregate stage over stores of more than five records (first visit)
NextCrowd == FetchFulfilledCrowd

SpecCrowd == InitPaginate /\ [][NextCrowd]_vars

---------------------------------------------------------------------------
(* Properties                                                              *)

Store == heap[global]
Filtered == heap[filtered]
Sorted == heap[sorted]
PageData == heap[paginated.data]

\* q occurs in s as a contiguous run
Contains(s, q) ==
  \E i \in 0 .. Len(s) :
    /\ i + Len(q) <= Len(s)
    /\ \A j \in 1 .. Len(q) : s[i + j] = q[j]

TaskTotal(r) == r.completedTasks + r.inWorkTasks + r.failedTasks

NameOk(r) == Contains(toLowerCase(r.name), toLowerCase(trim(query)))

Passes(r) == NameOk(r) /\ (onlyActive => TaskTotal(r) > 0)

\* the index of record r in arr (records of one array are distinct)
PosIn(arr, r) == CHOOSE i \in DOMAIN arr : arr[i] = r

NoRepeats(arr) == \A i, j \in DOMAIN arr : arr[i] = arr[j] => i = j

\* C1: the filter stage returns exactly the records of the store whose
\* case-folded name contains the trimmed, case-folded query (all of them when
\* the trimmed query is empty) and which, under onlyActive, have at least one
\* task; so an empty query without onlyActive keeps the length, and
\* onlyActive never returns more than the name filter alone.
C1_FilterContract ==
  /\ Range(Filtered) = {r \in Range(Store) : Passes(r)}
  /\ NoRepeats(Filtered)
  /\ (trim(query) = <<>>) =>
       Range(Filtered) = {r \in Range(Store) : onlyActive => TaskTotal(r) > 0}
  /\ (trim(query) = <<>> /\ ~onlyActive) => Len(Filtered) = Len(Store)
  /\ onlyActive =>
       Len(Filtered) <= Cardinality({r \in Range(Store) : NameOk(r)})

\* a query with a blank and a capital letter, onlyActive on; one record is
\* dropped for its name, one for having no tasks, one is kept
C1_Witness ==
  /\ query = <<32, 1040, 1085>>
  /\ onlyActive
  /\ Len(Store) = 3
  /\ Len(Filtered) = 1
  /\ \E r \in Range(Store) : ~NameOk(r)
  /\ \E r \in Range(Store) : NameOk(r) /\ TaskTotal(r) = 0

RECURSIVE IsSubsequence(_, _)
\* a is b with some elements left out
IsSubsequence(a, b) ==
  IF a = <<>> THEN TRUE
  ELSE IF b = <<>> THEN FALSE
  ELSE IF Head(a) = Head(b) THEN IsSubsequence(Tail(a), Tail(b))
  ELSE IsSubsequence(a, Tail(b))

\* C2: the filter stage never reorders: its output is a subsequence of the
\* store, any two records that pass keep their relative order.
C2_FilterKeepsOrder ==
  /\ IsSubsequence(Filtered, Store)
  /\ \A i, j \in DOMAIN Filtered :
       i < j => PosIn(Store, Filtered[i]) < PosIn(Store, Filtered[j])

\* two records pass and one before them is dropped by the activity filter
C2_Witness ==
  /\ onlyActive
  /\ Len(Filtered) = 2
  /\ Len(Store) = 3
  /\ TaskTotal(Store[1]) = 0

Metric(r, mode) ==
  CASE mode = "completedDesc" -> r.completedTasks
    [] mode = "failedDesc" -> r.failedTasks
    [] mode = "inWorkDesc" -> r.inWorkTasks

IsPermutation(a, b) ==
  /\ Len(a) = Len(b)
  /\ \A r \in Range(a) \cup Range(b) :
       Cardinality({i \in DOMAIN a : a[i] = r}) =
       Cardinality({i \in DOMAIN b : b[i] = r})

\* a may stand right before b under mode
InOrder(a, b, mode) ==
  IF mode = "nameAsc" THEN collatorCompare(a.name, b.name) <= 0
  ELSE \/ Metric(a, mode) > Metric(b, mode)
       \/ /\ Metric(a, mode) = Metric(b, mode)
          /\ collatorCompare(a.name, b.name) <= 0

\* C3: for completedDesc, failedDesc and inWorkDesc the sort stage returns a
\* permutation of its input in which each record has a larger metric than
\* the next, or the same metric and a name not after it in the collation
\* order; for nameAsc each name is not after the next.
C3_SortContract ==
  sortMode \in KnownModes =>
    /\ IsPermutation(Sorted, Filtered)
    /\ \A i \in 1 .. (Len(Sorted) - 1) : InOrder(Sorted[i], Sorted[i + 1], sortMode)

\* failedDesc over three records: a tie on failedTasks between "аня" and
\* "Аня" is broken by the collator (lower case first, against code-unit
\* order), then the metric drops; the input was in another order
C3_Witness ==
  /\ sortMode = "failedDesc"
  /\ Len(Sorted) = 3
  /\ Sorted # Filtered
  /\ Sorted[1].failedTasks = Sorted[2].failedTasks
  /\ Sorted[1].name = NameAnyaLower /\ Sorted[2].name = NameAnya
  /\ Sorted[2].failedTasks > Sorted[3].failedTasks

\* C4: with a sort mode outside the four known ones (such as a string
\* restored from "dashboard:sortMode") the sort stage returns what it returns
\* for nameAsc on the same input: the input ordered by name.
C4_UnknownModeIsNameAsc ==
  sortMode \notin KnownModes =>
    /\ Sorted = ArraySort(Filtered, "nameAsc")
    /\ IsPermutation(Sorted, Filtered)
    /\ \A i \in 1 .. (Len(Sorted) - 1) : InOrder(Sorted[i], Sorted[i + 1], "nameAsc")

\* an unknown persisted mode, and an input that was not in name order
C4_Witness ==
  /\ sortMode = "bogus"
  /\ Len(Sorted) = 3
  /\ Sorted # Filtered

\* C5: no stage changes its input: the store holds the payload exactly as it
\* was stored and the array the filter stage returned is as it was returned,
\* whatever was evaluated since; sort works on a copy.
C5_StagesDoNotMutate ==
  /\ Store = snapshot
  /\ Filtered = filteredVal
  /\ sorted # filtered /\ sorted # global
  /\ paginated.data \notin {global, filtered, sorted}

\* the filter stage returned the store array itself and sorting had to
\* reorder it
C5_Witness ==
  /\ filtered = global
  /\ Len(Store) = 3
  /\ Sorted # Store

\* C6: sorting is idempotent: sorting the output again under the same mode
\* returns it element for element.
C6_SortIdempotent == ArraySort(Sorted, sortMode) = Sorted

\* a sort that reordered its input and whose output holds two records with
\* equal keys
C6_Witness ==
  /\ Sorted # Filtered
  /\ \E i, j \in DOMAIN Sorted : i < j /\ compareFn(Sorted[i], Sorted[j], sortMode) = 0

FullKeyEqual(a, b, mode) ==
  /\ a.name = b.name
  /\ mode \in {"completedDesc", "failedDesc", "inWorkDesc"} =>
       Metric(a, mode) = Metric(b, mode)

\* C7: sorting is stable: two records with an equal full sort key (same
\* metric and same name, or same name under nameAsc) leave the sort stage in
\* the relative order they entered it.
C7_SortStable ==
  \A i, j \in DOMAIN Sorted :
    (i < j /\ FullKeyEqual(Sorted[i], Sorted[j], sortMode)) =>
      PosIn(Filtered, Sorted[i]) < PosIn(Filtered, Sorted[j])

\* inWorkDesc: two records named "Аня" with equal inWorkTasks, a record that
\* entered after them is moved in front of them
C7_Witness ==
  /\ sortMode = "inWorkDesc"
  /\ Len(Sorted) = 3
  /\ FullKeyEqual(Sorted[2], Sorted[3], sortMode)
  /\ Sorted[2].id # Sorted[3].id
  /\ PosIn(Filtered, Sorted[1]) = 3


\* k is ceil(total / n) for n >= 1
IsCeil(k, total, n) == k * n >= total /\ (k - 1) * n < total

\* C8: with pageSize >= 1 and any integer page, paginate returns total = the
\* input length, totalPages = max(1, ceil(total / pageSize)) and currentPage
\* = min(max(1, page), totalPages), so 1 <= currentPage <= totalPages.
C8_PaginateClamps ==
  pageSize >= 1 =>
    /\ paginated.total = Len(Sorted)
    /\ IsFinite(paginated.totalPages)
    /\ IsFinite(paginated.currentPage)
    /\ \E k \in 0 .. Len(Sorted) :
         /\ IsCeil(k, Len(Sorted), pageSize)
         /\ paginated.totalPages.v = IntMax(1, k)
    /\ paginated.currentPage.v = IntMin(IntMax(1, page), paginated.totalPages.v)
    /\ 1 <= paginated.currentPage.v
    /\ paginated.currentPage.v <= paginated.totalPages.v

\* pageSize 2, page 5, 3 records: currentPage 2 and the last single record
C8_Witness ==
  /\ pageSize = 2 /\ page = 5
  /\ Len(Sorted) = 3
  /\ paginated.totalPages = Num(2)
  /\ paginated.currentPage = Num(2)
  /\ PageData = <<Sorted[3]>>

RECURSIVE PagesFrom(_, _, _, _)
\* the data of pages p .. last of arr, one after the other
PagesFrom(arr, p, last, n) ==
  IF p > last THEN <<>>
  ELSE pageSlice(arr, Num(p), n) \o PagesFrom(arr, p + 1, last, n)

\* C9: with pageSize n >= 1 the data of a page is the contiguous slice
\* [(currentPage-1)*n, currentPage*n) of the input, at most n records, and
\* the data of pages 1..totalPages, in order, make up the input exactly.
C9_PaginationTotality ==
  pageSize >= 1 =>
    /\ PageData = SubSeq(Sorted, (paginated.currentPage.v - 1) * pageSize + 1,
                         IntMin(paginated.currentPage.v * pageSize, Len(Sorted)))
    /\ Len(PageData) <= pageSize
    /\ PagesFrom(Sorted, 1, paginated.totalPages.v, pageSize) = Sorted

\* three records on two pages, the second page shown and not full
C9_Witness ==
  /\ pageSize = 2 /\ page = 2
  /\ Len(Sorted) = 3
  /\ Len(PageData) = 1
  /\ paginated.totalPages = Num(2)

\* C10: with pageSize <= 0 paginate behaves as with page size 1: totalPages
\* is a finite integer >= 1, currentPage lies in 1..totalPages and data holds
\* at most one record.
C10_NonPositivePageSizeActsAsOne ==
  pageSize <= 0 =>
    /\ IsFinite(paginated.totalPages)
    /\ IsFinite(paginated.currentPage)
    /\ paginated.totalPages.v >= 1
    /\ 1 <= paginated.currentPage.v
    /\ paginated.currentPage.v <= paginated.totalPages.v
    /\ Len(PageData) <= 1

---------------------------------------------------------------------------
\* C11: with an empty record store, whatever the query, the flag, the sort
\* mode and the page are and for every page size >= 1, filter and sort
\* return empty arrays, paginate returns data = [], total = 0, totalPages =
\* 1, currentPage = 1, and the KPI object has every count, doneRate and
\* avgCompletedPerUser 0, top = null and an empty leaderboard.
C11_EmptyStore ==
  (Store = <<>> /\ pageSize >= 1) =>
    /\ Filtered = <<>>
    /\ Sorted = <<>>
    /\ PageData = <<>>
    /\ paginated.total = 0
    /\ paginated.totalPages = Num(1)
    /\ paginated.currentPage = Num(1)
    /\ totals = [completed |-> 0, inWork |-> 0, failed |-> 0]
    /\ kpis = [users |-> 0, total |-> 0, completed |-> 0, inWork |-> 0,
               failed |-> 0, doneRate |-> 0, avgCompletedPerUser100 |-> 0,
               top |-> <<>>, leaderboard |-> <<>>]

\* the store is empty, with a query, the flag set, a sort mode by metric,
\* the largest page requested and a page size of 2
C11_Witness ==
  /\ Store = <<>>
  /\ snapshot = <<>>
  /\ query # <<>>
  /\ onlyActive
  /\ sortMode = "failedDesc"
  /\ page = MaxPage
  /\ pageSize = 2

---------------------------------------------------------------------------
RECURSIVE FieldSum(_, _, _)
\* arr[1][field] + ... + arr[n][field]
FieldSum(arr, field, n) ==
  IF n = 0 THEN 0 ELSE FieldSum(arr, field, n - 1) + arr[n][field]

\* C12: the KPI fields completed, inWork and failed, and the three fields of
\* selectGlobalTotals, are the sums of completedTasks, inWorkTasks and
\* failedTasks over all records of the store; the KPI total is the sum of
\* the three and users is the number of records.
C12_AggregateConservation ==
  /\ kpis.completed = FieldSum(Store, "completedTasks", Len(Store))
  /\ kpis.inWork = FieldSum(Store, "inWorkTasks", Len(Store))
  /\ kpis.failed = FieldSum(Store, "failedTasks", Len(Store))
  /\ totals.completed = kpis.completed
  /\ totals.inWork = kpis.inWork
  /\ totals.failed = kpis.failed
  /\ kpis.total = kpis.completed + kpis.inWork + kpis.failed
  /\ kpis.users = Len(Store)

\* a store of MaxLen records with all three sums different and positive,
\* while the filter hides some of the records
C12_Witness ==
  /\ Len(Store) = MaxLen
  /\ Len(Filtered) < Len(Store)
  /\ kpis.completed > kpis.failed
  /\ kpis.failed > kpis.inWork
  /\ kpis.inWork > 0

---------------------------------------------------------------------------
\* completed / total * 100 rounded to the nearest integer, halves up; 0 for
\* total = 0
HalfUpPercent(completed, total) ==
  IF total = 0 THEN 0 ELSE (200 * completed + total) \div (2 * total)

\* C13: the done rate, in the KPI object and in every row of the table, is
\* completed / total * 100 rounded to the nearest integer with halves
\* rounded up when total > 0 and 0 when total = 0; it is an integer in
\* 0 .. 100.
C13_DoneRateIsRoundedPercent ==
  /\ kpis.doneRate = HalfUpPercent(kpis.completed, kpis.total)
  /\ kpis.doneRate \in 0 .. 100
  /\ \A i \in DOMAIN PageData :
       /\ rowDoneRate(PageData[i])
            = HalfUpPercent(PageData[i].completedTasks, TaskTotal(PageData[i]))
       /\ rowDoneRate(PageData[i]) \in 0 .. 100

---------------------------------------------------------------------------
\* the records of the store that have completed something
Completers == {r \in Range(Store) : r.completedTasks > 0}

\* C14: the KPI top is null when no record has completedTasks > 0 (the empty
\* store included); otherwise it is a record of the store whose
\* completedTasks is the maximum and whose name is the smallest in collation
\* order among the records with that maximum.
C14_TopRecord ==
  IF Completers = {} THEN kpis.top = <<>>
  ELSE /\ Len(kpis.top) = 1
       /\ kpis.top[1] \in Completers
       /\ \A r \in Range(Store) :
            /\ r.completedTasks <= kpis.top[1].completedTasks
            /\ r.completedTasks = kpis.top[1].completedTasks
                 => collatorCompare(kpis.top[1].name, r.name) <= 0

\* two records tie on the maximum and the one with the larger name comes
\* first in the store; the top is the other one
C14_Witness ==
  /\ Len(Store) = MaxLen
  /\ Len(kpis.top) = 1
  /\ \E i, j \in DOMAIN Store :
       /\ i < j
       /\ Store[j] = kpis.top[1]
       /\ Store[i].completedTasks = Store[j].completedTasks
       /\ collatorCompare(Store[j].name, Store[i].name) < 0

---------------------------------------------------------------------------
\* record a comes before entry (or record) b of the leaderboard order
Outranks(aCompleted, aName, bCompleted, bName) ==
  \/ aCompleted > bCompleted
  \/ aCompleted = bCompleted /\ collatorCompare(aName, bName) < 0

OnBoard(r) == \E i \in DOMAIN kpis.leaderboard : kpis.leaderboard[i].id = r.id

\* C15: the leaderboard has min(5, number of records with completedTasks >
\* 0) entries, each one a record of the store with completedTasks > 0 and
\* no record twice, ordered by completedTasks descending and then by name
\* ascending; no record left out outranks an entry; the entries carry place
\* 1, 2, ... in order; and when top is not null the first entry is top.
C15_Leaderboard ==
  /\ Len(kpis.leaderboard) = IntMin(5, Cardinality(Completers))
  /\ \A i \in DOMAIN kpis.leaderboard :
       /\ kpis.leaderboard[i].place = i
       /\ \E r \in Completers :
            /\ r.id = kpis.leaderboard[i].id
            /\ r.name = kpis.leaderboard[i].name
            /\ r.completedTasks = kpis.leaderboard[i].completed
  /\ \A i, j \in DOMAIN kpis.leaderboard :
       i < j =>
         /\ kpis.leaderboard[i].id # kpis.leaderboard[j].id
         /\ ~Outranks(kpis.leaderboard[j].completed, kpis.leaderboard[j].name,
                      kpis.leaderboard[i].completed, kpis.leaderboard[i].name)
  /\ \A r \in Completers :
       ~OnBoard(r) =>
         \A i \in DOMAIN kpis.leaderboard :
           ~Outranks(r.completedTasks, r.name,
                     kpis.leaderboard[i].completed, kpis.leaderboard[i].name)
  /\ kpis.top # <<>> => kpis.leaderboard[1].id = kpis.top[1].id

\* six records have completed something, one that has not lies among them,
\* the store is not in leaderboard order, and the board holds five entries
C15_Witness ==
  /\ Cardinality(Completers) = 6
  /\ Len(Store) = 7
  /\ Len(kpis.leaderboard) = 5
  /\ kpis.leaderboard[1].id # Store[1].id
  /\ kpis.leaderboard[5].completed = 1

---------------------------------------------------------------------------
\* C16: the aggregates depend on the record store only: a step that leaves
\* the records of the store as they are, whatever it does to query,
\* onlyActive, sortMode, page and pageSize, leaves selectGlobalKpis and
\* selectGlobalTotals as they are.
C16_AggregatesDependOnStoreOnly ==
  [][Store' = Store => (kpis' = kpis /\ totals' = totals)]_vars

\* one record in the store, hidden by the filter, with every argument moved
\* away from its initial value; the KPIs still count the record
C16_Witness ==
  /\ Len(Store) = 1
  /\ Filtered = <<>>
  /\ query # <<>>
  /\ onlyActive
  /\ sortMode = "nameAsc"
  /\ page = MaxPage
  /\ pageSize = 1
  /\ kpis.users = 1
  /\ kpis.total > 0

---------------------------------------------------------------------------
\* everything the page derives from the store
Views ==
  <<Store, Filtered, Sorted, PageData, paginated.total, paginated.totalPages,
    paginated.currentPage, totals, kpis>>

RejectStep ==
  \E i \in DOMAIN requests : requests[i] = "pending" /\ requests'[i] = "rejected"

FulfilStep ==
  \E i \in DOMAIN requests : requests[i] = "pending" /\ requests'[i] = "fulfilled"

\* C18: a rejected fetchGlobalStatistic delivers no new snapshot: the step
\* in which a request is rejected leaves the record collection and every
\* derived view (filtered, sorted, paginated, KPIs) as they were, and the
\* collection is still the last snapshot that was fetched successfully.
C18_RejectedFetchKeepsSnapshot ==
  [][RejectStep => (Views' = Views /\ snapshot' = snapshot /\ Store' = snapshot')]_vars

\* a request has been rejected after another one had delivered records
C18_Witness ==
  /\ requests = <<"fulfilled", "rejected">>
  /\ error # "null"
  /\ ~loading
  /\ Len(Store) = MaxLen - 1

\* C19: while a fetch is in flight the record collection and every derived
\* view stay unchanged: they change only in a step in which a request
\* fulfils, and in that step the collection becomes the fetched array as a
\* whole.
C19_StoreChangesOnlyOnFulfil ==
  [][IF FulfilStep THEN Store' = snapshot' ELSE Views' = Views]_vars

\* a request is in flight while the records of an earlier response are
\* shown
C19_Witness ==
  /\ requests = <<"fulfilled", "pending">>
  /\ loading
  /\ Len(Store) = MaxLen - 1
  /\ Sorted # Store

---------------------------------------------------------------------------
\* the page number the page holds is not the one paginate returned
PageMismatch == Num(page) # paginated.currentPage

\* a step that changes nothing the page count is computed from
InputsKept ==
  /\ Store' = Store
  /\ query' = query
  /\ onlyActive' = onlyActive
  /\ pageSize' = pageSize

\* C20: whenever the page state differs from the currentPage that paginate
\* returned, the page state is eventually set to it, so that page =
\* currentPage follows; the write of the effect sets page to currentPage and
\* leaves the two equal; once they are equal they stay so while no input
\* changes; and a step that replaces the store, in which paginate alone
\* runs, does not write the page state.
C20_PageResynchronizes ==
  /\ PageMismatch ~> ~PageMismatch
  /\ [][ResyncPage => (page' = paginated.currentPage.v /\ ~PageMismatch')]_vars
  /\ [][(~PageMismatch /\ InputsKept) => ~PageMismatch']_vars
  /\ [][Store' # Store => page' = page]_vars

\* the third page was shown and the store has shrunk to a single page
C20_Witness ==
  /\ page = 3
  /\ paginated.currentPage = Num(1)
  /\ paginated.totalPages = Num(1)
  /\ pageSize = 1
  /\ Len(Store) = 1

\* the inputs of the last call of an instance, but for the first one
OwnValues(c) == Tail(c.inputs)

\* what an instance returned last, by value
Held(m, name) ==
  IF name = "P" THEN [m.P.result EXCEPT !.data = m.heap[m.P.result.data]]
  ELSE m.heap[m[name].result]

\* the page is rendered once more, with the store and the arguments it has
RenderAgain ==
  MemoEvaluate(memo, memo.heap, memo.global, query, sortMode, onlyActive,
               page, pageSize)

\* the render of a step of SpecMemo, where a response replaces the store by
\* another array
StepRender ==
  IF snapshot' # snapshot
  THEN MemoEvaluate(memo, Append(memo.heap, snapshot'), Len(memo.heap) + 1,
                    query', sortMode', onlyActive', page', pageSize')
  ELSE MemoEvaluate(memo, memo.heap, memo.global,
                    query', sortMode', onlyActive', page', pageSize')

\* an input of the instance is not what it was in the render before
OwnInputChanged(r, name) ==
  \/ OwnValues(r[name]) # OwnValues(memo[name])
  \/ CASE name \in {"F1", "F2"} -> ~r.sameStore
       [] name = "S1" -> "F1" \notin r.kept
       [] name = "S2" -> "F2" \notin r.kept
       [] name = "P" -> "S2" \notin r.kept

\* C17: a second render with the same store reference and the same query,
\* sortMode, onlyActive, page and pageSize runs no result function, and every
\* instance returns the object it returned before; an instance that returns
\* the object it returned before returns it unchanged; and a result function
\* runs only when an input of its own instance has changed.
C17_Memoization ==
  /\ [](/\ RenderAgain.recomputed = {}
        /\ RenderAgain.kept = Instances
        /\ Caches(RenderAgain) = memo)
  /\ [][/\ memo' = Caches(StepRender)
        /\ \A name \in StepRender.kept : Held(memo', name) = Held(memo, name)
        /\ \A name \in StepRender.recomputed :
             OwnInputChanged(StepRender, name)]_vars

\* "Топ 3" is shown over a store of one record: the filter instances hold an
\* array of their own, and a second render finds every result kept
C17_Witness ==
  /\ onlyActive
  /\ pageSize = 3
  /\ Len(Store) = 1
  /\ memo.F1.result # memo.global
  /\ memo.heap[memo.S1.result] = Store
  /\ RenderAgain.kept = Instances

\* C21: every export (CSV, XLSX, JSON, clipboard TSV) is given the output of
\* the sort stage for the query, sortMode and onlyActive of the page, the
\* whole filtered and sorted collection, never a page of it.
C21_ExportsGetSortedCollection ==
  [][exported' # exported => exported'[2] = Sorted]_vars

\* C22: loading is true exactly while a fetchGlobalStatistic request is in
\* flight, started and neither fulfilled nor rejected yet, also when a second
\* request is started before the first completes.
C22_LoadingWhileInFlight == loading <=> (Pending # {})

\* the response of a request arrives after that of a request issued later
LateFulfilStep ==
  \E i \in DOMAIN requests :
    /\ requests[i] = "pending"
    /\ requests'[i] = "fulfilled"
    /\ \E j \in DOMAIN requests : j > i /\ requests[j] = "fulfilled"

\* C23: when requests overlap and their responses arrive in any order, the
\* store ends with the payload of the most recently issued request that
\* fulfilled: the response of an older request does not overwrite that of a
\* newer one.
C23_NewestResponseWins == [][LateFulfilStep => Store' = Store]_vars

---------------------------------------------------------------------------
(* Session: thunks and handlers                                            *)

MaxThunks == 2     \* thunks in flight at the same time

\* a thunk that made no API call settles in the microtasks of its dispatch,
\* before any handler or response runs
Settling == \E i \in DOMAIN thunks : ~thunks[i].api

\* createAsyncThunk: the payload creator starts and reads what it needs
Dispatched(type, creds, api, arg) ==
  /\ ~Settling
  /\ Len(thunks) < MaxThunks
  /\ thunks' = Append(thunks, [type |-> type, creds |-> creds, api |-> api,
                               arg |-> arg])

\* thunk i leaves the thunks in flight
Settled(i) ==
  thunks' = [j \in 1..(Len(thunks) - 1) |->
               IF j < i THEN thunks[j] ELSE thunks[j + 1]]

\* the thunks of a type whose completion can be dispatched now
InFlight(type) ==
  {i \in DOMAIN thunks :
     /\ thunks[i].type = type
     /\ Settling => ~thunks[i].api}

\* handleAuth: the login form is submitted (a switch to the account of the
\* session is refused); dispatch(login(creds)), login.pending
handleAuth ==
  \E creds \in Credentials :
    /\ ~(auth.isAuthenticated /\ creds.username = auth.username)
    /\ Dispatched("login", creds, TRUE, 0)
    /\ auth' = loginPending(auth)
    /\ UNCHANGED <<onPage, exported, webp, my, myTasks, myCreds, lastLogin>>

\* api.checkAuth(creds) resolves, login.fulfilled
LoginFulfilled ==
  \E i \in InFlight("login") :
    /\ thunks[i].creds \in Accounts
    /\ auth' = loginFulfilled(auth, thunks[i].creds)
    /\ lastLogin' = thunks[i].creds
    /\ Settled(i)
    /\ UNCHANGED <<onPage, exported, webp, my, myTasks, myCreds>>

\* api.checkAuth(creds) fails, login.rejected
LoginRejected ==
  \E i \in InFlight("login") :
    \E payload \in LoginRejections(thunks[i].creds) :
      /\ auth' = loginRejected(auth, payload)
      /\ Settled(i)
      /\ UNCHANGED <<onPage, exported, webp, my, myTasks, myCreds, lastLogin>>

\* handleLogOut: dispatch(logOut()); dispatch(clearProfile())
handleLogOut ==
  /\ ~Settling
  /\ auth' = logOut(auth)
  /\ UNCHANGED <<onPage, exported, webp, my, myTasks, thunks, myCreds, lastLogin>>

\* dispatch(fetchMyStatistic()): the thunk reads username, password and
\* isAuthenticated of the auth slice
FetchMyStatistic ==
  /\ Dispatched("fetchMyStatistic", SessionCreds, auth.isAuthenticated, 0)
  /\ UNCHANGED <<onPage, exported, webp, auth, my, myTasks, myCreds, lastLogin>>

\* fetchMyStatistic.fulfilled, with the response of the server or with null
FetchMyFulfilled ==
  \E i \in InFlight("fetchMyStatistic") :
    /\ thunks[i].api => thunks[i].creds \in Accounts
    /\ my' = IF thunks[i].api THEN MyStatisticOf(thunks[i].creds) ELSE <<>>
    /\ myCreds' = IF thunks[i].api THEN thunks[i].creds ELSE <<>>
    /\ Settled(i)
    /\ UNCHANGED <<onPage, exported, webp, auth, myTasks, lastLogin>>

\* fetchMyStatistic.rejected: state.error ?? action.payload
FetchMyRejected ==
  \E i \in InFlight("fetchMyStatistic"), msg \in ErrorMessages :
    /\ thunks[i].api
    /\ error' = IF error = "null" THEN msg ELSE error
    /\ Settled(i)
    /\ UNCHANGED <<heap, global, query, sortMode, onlyActive, page, pageSize,
                   filtered, sorted, paginated, totals, kpis, snapshot,
                   filteredVal, loading, requests, memo>>
    /\ UNCHANGED <<exported, webp, auth, my, myTasks, myCreds, lastLogin>>

NextAuth ==
  \/ handleAuth
  \/ LoginFulfilled
  \/ LoginRejected
  \/ handleLogOut
  \/ FetchMyStatistic
  \/ FetchMyFulfilled
  \/ FetchMyRejected

SpecAuth == InitPaginate /\ [][NextAuth]_vars

\* dispatch(fetchMyTasks({ start: 0, limit: 100 })), fetchMyTasks.pending
FetchMyTasks ==
  /\ Dispatched("fetchMyTasks", SessionCreds, auth.isAuthenticated, 0)
  /\ myTasks' = fetchMyTasksPending(myTasks)
  /\ UNCHANGED <<onPage, exported, webp, auth, my, myCreds, lastLogin>>

\* api.myTasksApi.getAll resolves, fetchMyTasks.fulfilled
FetchMyTasksFulfilled ==
  \E i \in InFlight("fetchMyTasks"), payload \in TaskLists :
    /\ thunks[i].api
    /\ myTasks' = fetchMyTasksFulfilled(myTasks, payload)
    /\ Settled(i)
    /\ UNCHANGED <<onPage, exported, webp, auth, my, myCreds, lastLogin>>

\* what a tasks thunk can pass to rejectWithValue: "unauthorized" when it
\* made no API call, the detail of the response or its own message ("Ошибка
\* загрузки моих задач", "Ошибка завершения задачи") when the call failed
TaskRejections(thunk) ==
  IF ~thunk.api THEN {"unauthorized"}
  ELSE {DetailOr(detail, IF thunk.type = "fetchMyTasks"
                         THEN "my tasks loading error"
                         ELSE "task completion error") : detail \in Details}

\* tasks thunk i is rejected with the payload
RejectedWith(i, payload) ==
  /\ payload \in TaskRejections(thunks[i])
  /\ myTasks' = IF thunks[i].type = "fetchMyTasks"
                THEN fetchMyTasksRejected(myTasks, payload)
                ELSE completeMyTaskRejected(myTasks, payload)
  /\ Settled(i)
  /\ UNCHANGED <<onPage, exported, webp, auth, my, myCreds, lastLogin>>

\* fetchMyTasks.rejected
FetchMyTasksRejected ==
  \E i \in InFlight("fetchMyTasks") :
    \E payload \in TaskRejections(thunks[i]) : RejectedWith(i, payload)

\* dispatch(completeMyTask({ taskId, result })), completeMyTask.pending
CompleteMyTask ==
  \E taskId \in TaskIds :
    /\ Dispatched("completeMyTask", SessionCreds, auth.isAuthenticated, taskId)
    /\ myTasks' = completeMyTaskPending(myTasks)
    /\ UNCHANGED <<onPage, exported, webp, auth, my, myCreds, lastLogin>>

\* api.myTasksApi.complete resolves, completeMyTask.fulfilled
CompleteMyTaskFulfilled ==
  \E i \in InFlight("completeMyTask") :
    /\ thunks[i].api
    /\ myTasks' = completeMyTaskFulfilled(myTasks, Task(thunks[i].arg, "done"))
    /\ Settled(i)
    /\ UNCHANGED <<onPage, exported, webp, auth, my, myCreds, lastLogin>>

\* completeMyTask.rejected
CompleteMyTaskRejected ==
  \E i \in InFlight("completeMyTask") :
    \E payload \in TaskRejections(thunks[i]) : RejectedWith(i, payload)

NextTasks ==
  \/ handleAuth
  \/ LoginFulfilled
  \/ handleLogOut
  \/ FetchMyTasks
  \/ FetchMyTasksFulfilled
  \/ FetchMyTasksRejected
  \/ CompleteMyTask
  \/ CompleteMyTaskFulfilled
  \/ CompleteMyTaskRejected

SpecTasks == InitPaginate /\ [][NextTasks]_vars

---------------------------------------------------------------------------
(* Session: properties                                                     *)

\* C24: under any interleaving of login, logOut and the start and completion
\* of fetchMyStatistic, statistics.my is null whenever isAuthenticated is
\* false, and a statistics.my that is not null was fetched with the
\* credentials that are in the auth slice now.
C24_MyBelongsToSession ==
  /\ ~auth.isAuthenticated => my = <<>>
  /\ my # <<>> => myCreds = SessionCreds

\* C25: a rejected login never ends or alters a session: username, password
\* and isAuthenticated keep their values, whether the user was authenticated
\* or not (then isAuthenticated stays false and username and password stay
\* empty); only loading and error change.
C25_FailedLoginKeepsSession ==
  [][LoginRejected =>
       /\ auth'.username = auth.username
       /\ auth'.password = auth.password
       /\ auth'.isAuthenticated = auth.isAuthenticated
       /\ ~auth'.loading
       /\ auth'.error # "null"
       /\ ~auth.isAuthenticated =>
            /\ ~auth'.isAuthenticated
            /\ auth'.username = ""
            /\ auth'.password = ""]_vars

\* a switch of account was rejected: the session of before is still there
C25_Witness ==
  /\ auth.isAuthenticated
  /\ auth.username = "boris"
  /\ auth.error = "wrong login or password"

\* C26: logOut resets every field of the auth slice to its initial value,
\* also while a login is pending: username "", password "", isAuthenticated
\* false, loading false, error null.
C26_LogOutResetsAuth == [][handleLogOut => auth' = authInitialState]_vars

\* C27: in every reachable state of the auth slice, username and password
\* are empty when isAuthenticated is false, and are those of the login that
\* fulfilled last when isAuthenticated is true.
C27_SessionCredentials ==
  /\ ~auth.isAuthenticated => auth.username = "" /\ auth.password = ""
  /\ auth.isAuthenticated => lastLogin = SessionCreds

\* the account was switched: a second login fulfilled after the statistic of
\* the first account had been fetched
C27_Witness ==
  /\ auth.isAuthenticated
  /\ auth.username = "boris"
  /\ myCreds # <<>>
  /\ myCreds.username = "anya"

\* the tasks thunks in flight
TaskThunks ==
  {i \in DOMAIN thunks : thunks[i].type \in {"fetchMyTasks", "completeMyTask"}}

\* what can be the payload of a rejection
RejectionPayloads ==
  {"unauthorized", "Task not found", "my tasks loading error",
   "task completion error"}

\* C28: fetchMyTasks and completeMyTask started while the user is not
\* authenticated make no API call and are rejected with "unauthorized"; that
\* rejection sets myTasks.unauthorized and leaves items and error unchanged;
\* any other rejection sets error to a message and leaves unauthorized and
\* items unchanged.
C28_UnauthorizedTasks ==
  /\ [][(FetchMyTasks \/ CompleteMyTask) =>
          thunks'[Len(thunks')].api = auth.isAuthenticated]_vars
  /\ [][\A i \in TaskThunks :
          (~thunks[i].api /\ Settled(i)) => RejectedWith(i, "unauthorized")]_vars
  /\ [][\A i \in TaskThunks, payload \in RejectionPayloads :
          RejectedWith(i, payload) =>
            /\ myTasks'.items = myTasks.items
            /\ IF payload = "unauthorized"
               THEN myTasks'.unauthorized /\ myTasks'.error = myTasks.error
               ELSE /\ myTasks'.error = payload
                    /\ myTasks'.unauthorized = myTasks.unauthorized]_vars

\* after a log out a tasks thunk was rejected as unauthorized: the tasks
\* fetched before are still there
C28_Witness ==
  /\ ~auth.isAuthenticated
  /\ myTasks.unauthorized
  /\ myTasks.error = "null"
  /\ Len(myTasks.items) = 2

\* C29: the memoized pipeline is transparent: what a memoized instance
\* returns equals a fresh filter-sort-paginate computation over the store and
\* the arguments of the render, and the page data of makeSelectPaginated is
\* the slice of what the separate makeSelectSorted instance returns.
C29_MemoTransparent ==
  /\ memo.heap[memo.global] = Store
  /\ Held(memo, "S1") = Sorted
  /\ Held(memo, "S2") = Sorted
  /\ Held(memo, "P") = [paginated EXCEPT !.data = PageData]
  /\ Held(memo, "P").data =
       pageSlice(Held(memo, "S1"), memo.P.result.currentPage, pageSize)

\* the second page of the active users, one on a page: the instances have
\* run more than once, and the sorted array is not the store
C29_Witness ==
  /\ Len(Sorted) >= 2
  /\ onlyActive
  /\ pageSize = 1
  /\ paginated.currentPage.v = 2
  /\ Held(memo, "P").data = <<Sorted[2]>>
  /\ Held(memo, "S1") # Store

---------------------------------------------------------------------------
(* The avatar utilities: isAnimatedWebP over the head of a file.  Bytes    *)
(* are integers 0 .. 255, a string is the sequence of its char codes.      *)

MaxChunks == 2      \* chunks after the RIFF header of a head
MaxIterations == 4  \* iterations of the chunk loop that are followed

\* "RIFF", "WEBP", "VP8X", "ANIM", "ANMF", "VP8 "
RIFF == <<82, 73, 70, 70>>
WEBP == <<87, 69, 66, 80>>
VP8X == <<86, 80, 56, 88>>
ANIM == <<65, 78, 73, 77>>
ANMF == <<65, 78, 77, 70>>
VP8 == <<86, 80, 56, 32>>

\* the size field of a chunk, little-endian: 0, 1, 2, 0xFFFFFFFF,
\* 0xFFFFFFF8, 0xFFFFFFF0 and 0x00010000
SizeFields ==
  {<<0, 0, 0, 0>>, <<1, 0, 0, 0>>, <<2, 0, 0, 0>>, <<255, 255, 255, 255>>,
   <<248, 255, 255, 255>>, <<240, 255, 255, 255>>, <<0, 0, 1, 0>>}

\* a chunk: its fourCC, its size field and the data that follows
Chunks ==
  {fourCC \o size \o data :
     fourCC \in {VP8X, ANIM, ANMF, VP8}, size \in SizeFields,
     data \in {<<>>, <<2, 0>>, <<16, 0>>}}

RECURSIVE ChunksUpTo(_)
ChunksUpTo(n) ==
  IF n = 0 THEN {<<>>}
  ELSE ChunksUpTo(n - 1)
         \cup {c \o rest : c \in Chunks, rest \in ChunksUpTo(n - 1)}

\* what readHead delivers: an empty file, a file that is not RIFF, a RIFF
\* file that is not WebP, and WebP files with chunks
Heads ==
  {<<>>, VP8 \o <<0, 0, 0, 0>> \o WEBP, RIFF \o <<0, 0, 0, 0>> \o RIFF}
    \cup {RIFF \o <<0, 0, 0, 0>> \o WEBP \o chunks :
            chunks \in ChunksUpTo(MaxChunks)}

\* String.fromCharCode(...bytes.slice(start, start + len))
textFrom(bytes, start, len) == ArraySlice(bytes, Num(start), Num(start + len))

\* bytes[off] as an operand of | and <<: undefined counts as 0
ByteAt(bytes, off) ==
  IF off >= 0 /\ off < Len(bytes) THEN bytes[off + 1] ELSE 0

\* bytes[off] | (bytes[off + 1] << 8) | (bytes[off + 2] << 16) |
\* (bytes[off + 3] << 24): the result of | is a signed 32-bit integer, bit 31
\* of which is the top bit of the last byte
readU32LE(bytes, off) ==
  ByteAt(bytes, off) + ByteAt(bytes, off + 1) * 256
    + ByteAt(bytes, off + 2) * 65536
    + (IF ByteAt(bytes, off + 3) >= 128
       THEN ByteAt(bytes, off + 3) - 256
       ELSE ByteAt(bytes, off + 3)) * 16777216

\* (size + 1) & ~1 on 32 bits: 2^31 wraps to -2^31, and bit 0 is cleared
AlignedEven(size) ==
  IF size = 2147483647 THEN (0 - 2147483647) - 1
  ELSE (size + 1) - ((size + 1) % 2)

\* (flags & 0x02) !== 0
AnimationFlag(flags) == (flags \div 2) % 2 = 1

\* the body of the while loop
Scanned(w) ==
  IF \/ textFrom(w.head, w.p, 4) = VP8X /\ AnimationFlag(ByteAt(w.head, w.p + 8))
     \/ textFrom(w.head, w.p, 4) \in {ANIM, ANMF}
  THEN [w EXCEPT !.result = "true", !.iterations = @ + 1]
  ELSE [w EXCEPT !.p = @ + 8 + AlignedEven(readU32LE(w.head, w.p + 4)),
                 !.iterations = @ + 1]

\* isAnimatedWebP(head) is called, the signature is checked; the function
\* keeps nothing between calls, so that one call is followed
isAnimatedWebP ==
  \E head \in Heads :
    /\ webp.result = "idle"
    /\ webp' = IF textFrom(head, 0, 4) # RIFF \/ textFrom(head, 8, 4) # WEBP
               THEN [head |-> head, p |-> 0, result |-> "false",
                     iterations |-> 0]
               ELSE [head |-> head, p |-> 12, result |-> "scanning",
                     iterations |-> 0]
    /\ UNCHANGED <<onPage, exported, auth, my, myTasks, thunks, myCreds,
                   lastLogin>>

\* while (p + 8 <= head.length): one iteration
ScanChunk ==
  /\ webp.result = "scanning"
  /\ webp.p + 8 <= Len(webp.head)
  /\ webp.iterations < MaxIterations
  /\ webp' = Scanned(webp)
  /\ UNCHANGED <<onPage, exported, auth, my, myTasks, thunks, myCreds,
                 lastLogin>>

\* the loop condition fails: return false
ScanEnds ==
  /\ webp.result = "scanning"
  /\ ~(webp.p + 8 <= Len(webp.head))
  /\ webp' = [webp EXCEPT !.result = "false"]
  /\ UNCHANGED <<onPage, exported, auth, my, myTasks, thunks, myCreds,
                 lastLogin>>

NextWebP == isAnimatedWebP \/ ScanChunk \/ ScanEnds

SpecWebP == InitPaginate /\ [][NextWebP]_vars

\* C30: isAnimatedWebP terminates on every input: for any RIFF....WEBP head
\* and any chunk sizes, also those with the top bit set or near 2^32, the
\* scan position strictly increases in every iteration of the loop that does
\* not return, and the loop ends with true or false.
C30_ScanAdvances ==
  [][ScanChunk => (webp'.result = "true" \/ webp'.p > webp.p)]_vars

====
